---- MODULE Spec2Model ----
(***************************************************************************)
(* A model of ghaz_function_timer/timer.py: the Timer class, usable as a   *)
(* context manager (__enter__/__exit__) and as a decorator (__call__),     *)
(* together with get_total_time and print_and_format_time.                 *)
(*                                                                         *)
(* Time is counted in clock ticks.  SubTicks ticks make 0.0001 s, the      *)
(* precision of round(x, 4); every time value of the model (timestamps,    *)
(* elapsed times, p_time) is a number of ticks, and Round4 rounds it to    *)
(* the nearest multiple of SubTicks.                                       *)
(*                                                                         *)
(* Standard output and the logging sink are modelled by `emitted`, the     *)
(* sequence of print() and getLogger().info() calls made by the most       *)
(* recent operation, in program order.  `last` records what the most       *)
(* recent operation was called with and what it computed.  The padding     *)
(* (<80, >30) and the colouring of a printed line are not modelled: a      *)
(* line is the triple of its function-name segment, title and time.        *)
(***************************************************************************)
EXTENDS Integers, Sequences, FiniteSets

\* ---------------------------------------------------------------- bounds
MaxClock == 3
MaxDepth == 2
SubTicks == 3

\* ------------------------------------------------------------ value sets
\* Python's None where a number is expected (start_time, p_time).
None == -1
\* Python's None where a function name is expected.
NoneName == "None"
\* No exception in flight.
NoExc == "NoExc"

Timers == {"t1"}
Funcs == {"f"}
Exceptions == {"ValueError", "KeyError"}
Values == {0, 6}
Titles == {"Total time: "}
PTimes == {None, 0, 1, 4}
Names == {NoneName, "f"}
\* Argument lists a wrapper is invoked with: positional and keyword parts.
CallArgs == { [args |-> <<3>>, kwargs |-> <<>>],
              [args |-> <<3, 4>>, kwargs |-> <<"k">>] }
NoArgs == [args |-> <<>>, kwargs |-> <<>>]
ClockStarts == {0, 1}

VARIABLES
    clock,            \* what time() returns now
    class_total_time, \* Timer.total_time, the class attribute
    timers,           \* the Timer instances: their attributes
    wrappers,         \* the wrappers made by Timer.__call__: <<timer, func>>
    stack,            \* the timed regions that are open, innermost last
    exc,              \* the exception in flight, or NoExc
    emitted,          \* the print and log calls of the last operation
    last              \* the last operation: its inputs and results

vars == <<clock, class_total_time, timers, wrappers, stack, exc, emitted, last>>

\* ------------------------------------------------------------ helpers
\* Python truthiness of an Optional[float]: None and 0 are false.
Falsy(x) == x = None \/ x = 0

\* round(x, 4): the nearest multiple of 0.0001 s.
Round4(x) == SubTicks * ((2 * x + SubTicks) \div (2 * SubTicks))

\* str(x) of a number: a string holding that number; "" is the empty one.
Str(x) == <<x>>
EmptyStr == <<>>

\* The things written to the sinks.
Line(fn, title, t) ==
    [sink |-> "stdout", kind |-> "line", fn |-> fn, title |-> title,
     time |-> t, text |-> EmptyStr]
Blank ==
    [sink |-> "stdout", kind |-> "blank", fn |-> "", title |-> "",
     time |-> 0, text |-> EmptyStr]
Response(v) ==
    [sink |-> "stdout", kind |-> "response", fn |-> "", title |-> "",
     time |-> v, text |-> EmptyStr]
LogInfo(fn, title, text) ==
    [sink |-> "log", kind |-> "info", fn |-> fn, title |-> title,
     time |-> 0, text |-> text]

\* A Timer that has not been constructed yet.
NoTimer ==
    [made |-> FALSE, print_time |-> FALSE, print_response |-> FALSE,
     log_not_print |-> FALSE, start_time |-> None,
     has_total |-> FALSE, total_time |-> 0]

\* Timer.__init__
NewTimer(pt, pr, lg) ==
    [made |-> TRUE, print_time |-> pt, print_response |-> pr,
     log_not_print |-> lg, start_time |-> None,
     has_total |-> FALSE, total_time |-> 0]

\* self.total_time: the instance attribute when bound, else the class one.
TotalRef(tm, class_tt) == IF tm.has_total THEN tm.total_time ELSE class_tt

\* Timer.get_total_time
GetTotalTimeValue(tm, now, class_tt) == Round4(now - TotalRef(tm, class_tt))

\* print_and_format_time: the time string of the log branch.
UncoloredTimeString(p_time) ==
    IF Falsy(p_time) THEN EmptyStr ELSE Str(Round4(p_time))

\* print_and_format_time: the "(Function: name)" segment.
FunctionNameString(function_name) ==
    IF function_name = NoneName \/ function_name = "" THEN "" ELSE function_name

\* print_and_format_time: the time put on the printed line.
ShownTime(tm, p_time, now, class_tt) ==
    IF Falsy(p_time) THEN GetTotalTimeValue(tm, now, class_tt) ELSE p_time

\* print_and_format_time: whether a blank line follows.
ExtraLine(p_time) == p_time # None

\* A variant of print_and_format_time whose log branch does not return.
PrintAndFormatTimeLogAndPrint(tm, title, p_time, function_name, now, class_tt) ==
    (IF tm.log_not_print
       THEN <<LogInfo(function_name, title, UncoloredTimeString(p_time))>>
       ELSE <<>>)
    \o <<Line(FunctionNameString(function_name), title,
              Round4(ShownTime(tm, p_time, now, class_tt)))>>
    \o (IF ExtraLine(p_time) THEN <<Blank>> ELSE <<>>)

\* Timer.print_and_format_time: its calls on the sinks.
PrintAndFormatTime(tm, title, p_time, function_name, now, class_tt) ==
    IF tm.log_not_print
      THEN <<LogInfo(function_name, title, UncoloredTimeString(p_time))>>
      ELSE <<Line(FunctionNameString(function_name), title,
                  Round4(ShownTime(tm, p_time, now, class_tt)))>>
           \o (IF ExtraLine(p_time) THEN <<Blank>> ELSE <<>>)

\* A variant of lines 127-128 with the test inverted.
RebindTotalWhenTrue(tm, class_tt) ==
    IF ~Falsy(TotalRef(tm, class_tt))
      THEN [tm EXCEPT !.has_total = TRUE, !.total_time = 0]
      ELSE tm

\* __time_function__, lines 127-128: bind the instance's total_time to 0
\* when the value read through the instance is false.
RebindTotal(tm, class_tt) ==
    IF Falsy(TotalRef(tm, class_tt))
      THEN [tm EXCEPT !.has_total = TRUE, !.total_time = 0]
      ELSE tm

\* __time_function__, line 130.
ExecutionTime(tm, now) == Round4(now - tm.start_time)

\* Timer.__time_function__: the timer afterwards, the elapsed time it
\* computed and its calls on the sinks.
TimeFunction(tm, function_name, now, class_tt) ==
    LET tm2 == RebindTotal(tm, class_tt)
        execution_time == ExecutionTime(tm2, now)
    IN [timer |-> tm2,
        elapsed |-> execution_time,
        out |-> IF tm2.print_time
                  THEN PrintAndFormatTime(tm2, "Execution time: ",
                                          execution_time, function_name,
                                          now, class_tt)
                  ELSE <<>>]

\* A variant of __exit__ that times only a block that completed.
ExitSkippedOnRaise(tm, exc_val, now, class_tt) ==
    IF exc_val # NoExc
      THEN [timer |-> tm, elapsed |-> 0, out |-> <<>>]
      ELSE TimeFunction(tm, NoneName, now, class_tt)

\* Timer.__exit__ run with exception exc_val (NoExc: the block completed).
Exit(tm, exc_val, now, class_tt) == TimeFunction(tm, NoneName, now, class_tt)

\* A variant of __exit__ that returns a true value.
ExitSuppresses == TRUE

\* What __exit__ returns, as the with statement reads it: a true value
\* suppresses the exception.  __exit__ returns None.
ExitResult == FALSE

\* wrapper, line 107: the calls it makes on func, each with the arguments
\* it passes.
Invocations(c) == <<c>>

\* A variant of lines 109-112 that prints the response after the timing.
AfterCallTimingFirst(tm, function_name, response, now, class_tt) ==
    LET r == TimeFunction(tm, function_name, now, class_tt)
    IN [r EXCEPT !.out = r.out \o (IF tm.print_response
                                     THEN <<Response(response)>> ELSE <<>>)]

\* wrapper, lines 109-112: what follows a normal return of func.
AfterCall(tm, function_name, response, now, class_tt) ==
    LET r == TimeFunction(tm, function_name, now, class_tt)
    IN [r EXCEPT !.out = (IF tm.print_response
                            THEN <<Response(response)>> ELSE <<>>) \o r.out]

\* A variant of the wrapper without its return statement.
WrapperResultNone(response) == None

\* wrapper, line 114.
WrapperResult(response) == response

\* A variant of the wrapper that times in a finally clause.
OnRaiseFinally(tm, function_name, now, class_tt) ==
    TimeFunction(tm, function_name, now, class_tt)

\* wrapper, line 107 when func raises: nothing of the wrapper handles it.
OnRaise(tm, function_name, now, class_tt) ==
    [timer |-> tm, elapsed |-> 0, out |-> <<>>]

\* ------------------------------------------------------------ ghost record
NoLast ==
    [op |-> "init", t |-> "t1", fn |-> NoneName, title |-> "",
     exc |-> NoExc, entry |-> 0, exit |-> 0, elapsed |-> 0,
     p_time |-> None, ref |-> 0, total |-> 0, ret |-> 0, resp |-> 0,
     given |-> NoArgs, invocations |-> <<>>]

Frame(mode, t, fn, entry, given, invocations) ==
    [mode |-> mode, t |-> t, fn |-> fn, entry |-> entry,
     given |-> given, invocations |-> invocations]

Top == stack[Len(stack)]
Pop == SubSeq(stack, 1, Len(stack) - 1)

\* ------------------------------------------------------------ Init
\* Module load: the class attribute total_time = time().
Init ==
    /\ clock \in ClockStarts
    /\ class_total_time = clock
    /\ timers = [t \in Timers |-> NoTimer]
    /\ wrappers = {}
    /\ stack = <<>>
    /\ exc = NoExc
    /\ emitted = <<>>
    /\ last = NoLast

\* ------------------------------------------------------------ actions
\* The wall clock advances.
Tick ==
    /\ clock < MaxClock
    /\ clock' = clock + 1
    /\ UNCHANGED <<class_total_time, timers, wrappers, stack, exc, emitted, last>>

\* Timer(print_time, print_response, log_not_print)
Construct(t, pt, pr, lg) ==
    /\ exc = NoExc
    /\ ~timers[t].made
    /\ timers' = [timers EXCEPT ![t] = NewTimer(pt, pr, lg)]
    /\ emitted' = <<>>
    /\ last' = [NoLast EXCEPT !.op = "construct", !.t = t]
    /\ UNCHANGED <<clock, class_total_time, wrappers, stack, exc>>

\* Timer.__call__(func): the decoration.
Decorate(t, f) ==
    /\ exc = NoExc
    /\ timers[t].made
    /\ <<t, f>> \notin wrappers
    /\ wrappers' = wrappers \cup {<<t, f>>}
    /\ emitted' = <<>>
    /\ last' = [NoLast EXCEPT !.op = "decorate", !.t = t, !.fn = f]
    /\ UNCHANGED <<clock, class_total_time, timers, stack, exc>>

\* Timer.__enter__
Enter(t) ==
    /\ exc = NoExc
    /\ timers[t].made
    /\ Len(stack) < MaxDepth
    /\ timers' = [timers EXCEPT ![t].start_time = clock]
    /\ stack' = Append(stack, Frame("with", t, NoneName, clock, NoArgs, <<>>))
    /\ emitted' = <<>>
    /\ last' = [NoLast EXCEPT !.op = "enter", !.t = t, !.entry = clock]
    /\ UNCHANGED <<clock, class_total_time, wrappers, exc>>

\* The with statement leaves its block, normally or with exc in flight,
\* and calls Timer.__exit__.
ExitWith ==
    /\ stack # <<>>
    /\ Top.mode = "with"
    /\ LET t == Top.t
           r == Exit(timers[t], exc, clock, class_total_time)
       IN /\ timers' = [timers EXCEPT ![t] = r.timer]
          /\ emitted' = r.out
          /\ last' = [NoLast EXCEPT !.op = "exit", !.t = t, !.exc = exc,
                                    !.entry = Top.entry, !.exit = clock,
                                    !.elapsed = r.elapsed]
    /\ stack' = Pop
    /\ exc' = IF ExitResult THEN NoExc ELSE exc
    /\ UNCHANGED <<clock, class_total_time, wrappers>>

\* wrapper(*args, **kwargs) up to its call of func.
WrapperCall(t, f, c) ==
    /\ exc = NoExc
    /\ <<t, f>> \in wrappers
    /\ Len(stack) < MaxDepth
    /\ timers' = [timers EXCEPT ![t].start_time = clock]
    /\ stack' = Append(stack, Frame("call", t, f, clock, c, Invocations(c)))
    /\ emitted' = <<>>
    /\ last' = [NoLast EXCEPT !.op = "call", !.t = t, !.fn = f,
                              !.entry = clock, !.given = c,
                              !.invocations = Invocations(c)]
    /\ UNCHANGED <<clock, class_total_time, wrappers, exc>>

\* func returns v; the wrapper runs to its return.
WrapperReturn(v) ==
    /\ exc = NoExc
    /\ stack # <<>>
    /\ Top.mode = "call"
    /\ LET t == Top.t
           r == AfterCall(timers[t], Top.fn, v, clock, class_total_time)
       IN /\ timers' = [timers EXCEPT ![t] = r.timer]
          /\ emitted' = r.out
          /\ last' = [NoLast EXCEPT !.op = "return", !.t = t, !.fn = Top.fn,
                                    !.entry = Top.entry, !.exit = clock,
                                    !.elapsed = r.elapsed, !.ret = v,
                                    !.resp = WrapperResult(v),
                                    !.given = Top.given,
                                    !.invocations = Top.invocations]
    /\ stack' = Pop
    /\ UNCHANGED <<clock, class_total_time, wrappers, exc>>

\* The code of the innermost open region raises e.
Raise(e) ==
    /\ exc = NoExc
    /\ stack # <<>>
    /\ exc' = e
    /\ emitted' = <<>>
    /\ last' = [NoLast EXCEPT !.op = "raise", !.t = Top.t, !.exc = e]
    /\ UNCHANGED <<clock, class_total_time, timers, wrappers, stack>>

\* func raised: the exception leaves the wrapper.
WrapperRaise ==
    /\ exc # NoExc
    /\ stack # <<>>
    /\ Top.mode = "call"
    /\ LET t == Top.t
           r == OnRaise(timers[t], Top.fn, clock, class_total_time)
       IN /\ timers' = [timers EXCEPT ![t] = r.timer]
          /\ emitted' = r.out
          /\ last' = [NoLast EXCEPT !.op = "raised", !.t = t, !.fn = Top.fn,
                                    !.exc = exc, !.entry = Top.entry,
                                    !.exit = clock, !.given = Top.given,
                                    !.invocations = Top.invocations]
    /\ stack' = Pop
    /\ UNCHANGED <<clock, class_total_time, wrappers, exc>>

\* The caller of a region the exception has just left observes it.
Catch ==
    /\ exc # NoExc
    /\ last.op \in {"exit", "raised"}
    /\ exc' = NoExc
    /\ emitted' = <<>>
    /\ last' = [NoLast EXCEPT !.op = "caught", !.t = last.t, !.exc = exc]
    /\ UNCHANGED <<clock, class_total_time, timers, wrappers, stack>>

\* Timer.get_total_time
GetTotalTime(t) ==
    /\ exc = NoExc
    /\ timers[t].made
    /\ emitted' = <<>>
    /\ last' = [NoLast EXCEPT !.op = "total", !.t = t, !.exit = clock,
                              !.ref = TotalRef(timers[t], class_total_time),
                              !.total = GetTotalTimeValue(timers[t], clock,
                                                          class_total_time)]
    /\ UNCHANGED <<clock, class_total_time, timers, wrappers, stack, exc>>

\* Timer.print_and_format_time called by the user.
PrintTime(t, title, p_time, function_name) ==
    /\ exc = NoExc
    /\ timers[t].made
    /\ emitted' = PrintAndFormatTime(timers[t], title, p_time, function_name,
                                     clock, class_total_time)
    /\ last' = [NoLast EXCEPT !.op = "print", !.t = t, !.fn = function_name,
                              !.title = title, !.p_time = p_time,
                              !.exit = clock,
                              !.ref = TotalRef(timers[t], class_total_time),
                              !.total = GetTotalTimeValue(timers[t], clock,
                                                          class_total_time)]
    /\ UNCHANGED <<clock, class_total_time, timers, wrappers, stack, exc>>

Next ==
    \/ Tick
    \/ \E t \in Timers, pt \in BOOLEAN, pr \in BOOLEAN, lg \in BOOLEAN :
          Construct(t, pt, pr, lg)
    \/ \E t \in Timers, f \in Funcs : Decorate(t, f)
    \/ \E t \in Timers : Enter(t)
    \/ ExitWith
    \/ \E t \in Timers, f \in Funcs, c \in CallArgs : WrapperCall(t, f, c)
    \/ \E v \in Values : WrapperReturn(v)
    \/ \E e \in Exceptions : Raise(e)
    \/ WrapperRaise
    \/ Catch
    \/ \E t \in Timers : GetTotalTime(t)
    \/ \E t \in Timers, title \in Titles, p \in PTimes, n \in Names :
          PrintTime(t, title, p, n)

Spec == Init /\ [][Next]_vars

\* ------------------------------------------------------------ claims
Flags(t) == timers[t]
IsStdout(e) == e.sink = "stdout"
IsLog(e) == e.sink = "log"
IsResponse(e) == e.kind = "response"
\* A timing message: a printed timing line or a log record.
IsTiming(e) == e.kind \in {"line", "info"}
Count(P(_), s) == Len(SelectSeq(s, P))
Completed == last.op \in {"exit", "return"}

C2_ExceptionPropagates ==
    (last.op \in {"exit", "raised"} /\ last.exc # NoExc) => exc = last.exc

C2_Witness ==
    /\ last.op = "exit"
    /\ last.exc = "KeyError"
    /\ exc = "KeyError"
    /\ Flags(last.t).print_time

\* C3: every exit of a with block, normal or raising, computes the elapsed
\* time and emits exactly one timing message, without a function name, when
\* print_time is set, and emits nothing when it is not.
C3_ExitAlwaysTimes ==
    last.op = "exit" =>
        /\ last.elapsed = Round4(last.exit - Flags(last.t).start_time)
        /\ IF Flags(last.t).print_time
             THEN /\ Count(IsTiming, emitted) = 1
                  /\ \A i \in 1..Len(emitted) :
                        IsTiming(emitted[i]) =>
                            emitted[i].fn \in {"", NoneName}
             ELSE emitted = <<>>

C3_Witness ==
    /\ last.op = "exit"
    /\ last.exc # NoExc
    /\ Flags(last.t).print_time
    /\ Count(IsTiming, emitted) = 1

\* C4 as stated: with log_not_print set, a timed completion writes nothing
\* to standard output and emits exactly one log record, whatever print_time
\* and print_response are.
C4_Original ==
    (Completed /\ Flags(last.t).log_not_print) =>
        /\ Count(IsStdout, emitted) = 0
        /\ Count(IsLog, emitted) = 1

\* C4 as amended: with log_not_print set, a timed completion prints no
\* timing line and no blank line; it emits exactly one log record when
\* print_time is set and none when it is not; and the only text written to
\* standard output is the return value of a decorated call, once, when
\* print_response is set.
C4_LogInsteadOfPrint ==
    (Completed /\ Flags(last.t).log_not_print) =>
        /\ Count(IsLog, emitted) = (IF Flags(last.t).print_time THEN 1 ELSE 0)
        /\ Count(IsStdout, emitted) =
              (IF last.op = "return" /\ Flags(last.t).print_response
                 THEN 1 ELSE 0)
        /\ \A i \in 1..Len(emitted) :
              IsStdout(emitted[i]) => IsResponse(emitted[i])

C4_Witness ==
    /\ last.op = "return"
    /\ Flags(last.t).log_not_print
    /\ Flags(last.t).print_time
    /\ Flags(last.t).print_response
    /\ Count(IsLog, emitted) = 1
    /\ Count(IsStdout, emitted) = 1

\* C5: the elapsed time computed when a region completes is the clock at
\* that completion minus the clock at the entry of that same region
\* (rounded to 4 decimals), and is not negative, also when one Timer is
\* reused for nested regions.
C5_ElapsedOfSameRegion ==
    Completed =>
        /\ last.elapsed = Round4(last.exit - last.entry)
        /\ last.elapsed >= 0

\* C6: with print_response set the wrapper prints the value func returned
\* exactly once, before the timing message of that invocation; with
\* print_response not set it never prints the value.
C6_ResponseBeforeTiming ==
    last.op = "return" =>
        IF Flags(last.t).print_response
          THEN /\ Count(IsResponse, emitted) = 1
               /\ emitted[1] = Response(last.ret)
               /\ \A i \in 1..Len(emitted) : IsTiming(emitted[i]) => i > 1
          ELSE Count(IsResponse, emitted) = 0

C6_Witness ==
    /\ last.op = "return"
    /\ Flags(last.t).print_response
    /\ Flags(last.t).print_time
    /\ last.ret = 6
    /\ Len(emitted) >= 2
    /\ IsTiming(emitted[2])

\* C7: a wrapper invocation sets start_time before it calls func; when func
\* raises, the invocation emits nothing, neither the response nor a timing
\* message, and start_time stays overwritten; a raising with block still
\* emits its timing message when print_time is set.
C7_RaisingCallEmitsNothing ==
    /\ last.op = "call" => Flags(last.t).start_time = last.entry
    /\ last.op = "raised" =>
          /\ emitted = <<>>
          /\ Flags(last.t).start_time # None
          /\ Flags(last.t).start_time >= last.entry
    /\ (last.op = "exit" /\ last.exc # NoExc /\ Flags(last.t).print_time) =>
          Count(IsTiming, emitted) = 1

C7_Witness ==
    /\ last.op = "raised"
    /\ last.exc # NoExc
    /\ Flags(last.t).print_time
    /\ Flags(last.t).print_response
    /\ emitted = <<>>

\* C8: no operation changes the reference value get_total_time subtracts
\* from the clock, so the value get_total_time returns never decreases from
\* one state to the next.
C8_TotalReferenceFixed ==
    [][\A t \in Timers :
          (timers[t].made /\ timers'[t].made) =>
              /\ TotalRef(timers'[t], class_total_time')
                    = TotalRef(timers[t], class_total_time)
              /\ GetTotalTimeValue(timers'[t], clock', class_total_time')
                    >= GetTotalTimeValue(timers[t], clock, class_total_time)]_vars

C8_Witness ==
    /\ last.op = "total"
    /\ Flags(last.t).has_total
    /\ last.total > 0
    /\ last.total = GetTotalTimeValue(Flags(last.t), clock, class_total_time)

\* C9: with log_not_print not set, the printed line shows the elapsed value
\* whenever one is supplied, 0 included, and the total time only when none
\* is supplied; the blank line follows exactly when a value was supplied.
C9_ShownTimeIsSupplied ==
    /\ (last.op = "print" /\ ~Flags(last.t).log_not_print) =>
          /\ emitted[1].time =
                (IF last.p_time # None THEN Round4(last.p_time) ELSE last.total)
          /\ (Len(emitted) = 2) <=> (last.p_time # None)
    /\ (Completed /\ ~Flags(last.t).log_not_print /\ Flags(last.t).print_time) =>
          \A i \in 1..Len(emitted) :
              emitted[i].kind = "line" => emitted[i].time = last.elapsed

\* C10: with log_not_print set, the emission of a timed completion is one
\* log record whose fields are the function name, the title and the elapsed
\* time of the operation, 0 included, and no line is printed.
C10_LogRecordFields ==
    (Completed /\ Flags(last.t).log_not_print /\ Flags(last.t).print_time) =>
        /\ SelectSeq(emitted, IsLog)
              = <<LogInfo(last.fn, "Execution time: ", Str(last.elapsed))>>
        /\ \A i \in 1..Len(emitted) : emitted[i].kind \notin {"line", "blank"}

====
